---- MODULE Spec2Model ----
(***************************************************************************)
(* Model of the Lua plugin bridge of Xournal++                             *)
(* (src/src/core/plugin/luapi_application.h).                              *)
(*                                                                         *)
(* Every entry point is one action: the script calls it with one argument  *)
(* record, the handler runs to completion on the host state and leaves a   *)
(* description of what it did in `call`.  The calls that wait for the user *)
(* (saveAs, getFilePath) or go on after the document lock is released      *)
(* (setPageSize) take two steps; `call` has the result "running" between.  *)
(*                                                                         *)
(* Conventions                                                             *)
(*  - an optional Lua value is a sequence: <<>> is nil (field absent),     *)
(*    <<v>> is the value v;                                                *)
(*  - an array-shaped Lua table is the sequence of its values in the order *)
(*    lua_next enumerates its array part (ascending index);                *)
(*  - a Lua integer (64 bit, two's complement) is a record                 *)
(*    [hi, a, rgb]: hi = bits 32..63 read as a signed number,              *)
(*    a = bits 24..31, rgb = bits 0..23;                                   *)
(*  - a Color (32 bit) is a record [a, rgb];                               *)
(*  - a Lua integer that stands for a page, layer or pdf page number is a  *)
(*    record [hi, lo] of the value hi * 2^32 + lo, lo being the low 32     *)
(*    bits read as a signed number (what a conversion to int keeps);       *)
(*  - page sizes are in points;                                            *)
(*  - widths and thicknesses are in hundredths of a point;                 *)
(*  - a LineStyle is its dash pattern (in half points), <<>> being the     *)
(*    plain line.                                                          *)
(***************************************************************************)
EXTENDS Integers, Sequences, FiniteSets, TLC

VARIABLES
    alive,        \* FALSE once a call has run into undefined behaviour
    hasPage,      \* control->getCurrentPage() is a valid page
    layer,        \* elements of page->getSelectedLayer(), in order
    toolHandler,  \* ctrl->getToolHandler(): active tool type and the tools
    selection,    \* color of the current selection, <<>> when nothing is selected
    host,         \* the document's pages, the view, the plugin and what the
                  \* last call told the host's listeners
    call          \* the last entry-point call: its argument and its outcome

vars == <<alive, hasPage, layer, toolHandler, selection, host, call>>

----------------------------------------------------------------------------
(* Bounds of the model *)

\* Longest coordinate table a script passes to addStroke.
MaxPoints == 3
\* Most spline segments a script passes to addSpline.
MaxSegments == 2
\* Most elements on the selected layer.
MaxElements == 2
\* Most pages of a document.
MaxPages == 3
\* Most content layers of a page.
MaxLayers == 2
\* Most pages of the pdf file behind the document.
MaxPdfPages == 2
\* Most menu entries a plugin registers.
MaxMenus == 2
\* Largest page width or height, in points, a script asks for.
MaxExtent == 1000

----------------------------------------------------------------------------
(* Lua values *)

Nil == <<>>
Some(v) == <<v>>
IsNil(o) == o = <<>>
Val(o) == o[1]

\* The Lua integer hi * 2^32 + a * 2^24 + rgb.
LuaInteger(hi, a, rgb) == [hi |-> hi, a |-> a, rgb |-> rgb]

\* Largest RGB value, 0xffffff.
RGB_MAX == 16777215

\* uint32_t color = as_unsigned(lua_tointeger(L, -1)): the low 32 bits.
AsUint32(i) == [a |-> i.a, rgb |-> i.rgb]

\* Color(uint32_t)
Color(u) == [a |-> u.a, rgb |-> u.rgb]

\* color > 0xffffff on a uint32_t
AboveRgb(u) == u.a > 0

\* The integer lies in [0, 0xFFFFFF] as a 64-bit number.
InRgbRange(i) == i.hi = 0 /\ i.a = 0 /\ i.rgb >= 0 /\ i.rgb <= RGB_MAX

----------------------------------------------------------------------------
(* Points and strokes *)

\* Point::NO_PRESSURE
NO_PRESSURE == -1
\* stroke->setFill(-1): no fill
NO_FILL == -1

Point(x, y, z) == [x |-> x, y |-> y, z |-> z]

STROKE_TOOL_PEN == "STROKE_TOOL_PEN"
STROKE_TOOL_HIGHLIGHTER == "STROKE_TOOL_HIGHLIGHTER"

Stroke(points, toolType, width, color, fill, lineStyle) ==
    [points |-> points, toolType |-> toolType, width |-> width,
     color |-> color, fill |-> fill, lineStyle |-> lineStyle]

----------------------------------------------------------------------------
(* Tools *)

TOOL_NONE == "TOOL_NONE"
TOOL_PEN == "TOOL_PEN"
TOOL_ERASER == "TOOL_ERASER"
TOOL_HIGHLIGHTER == "TOOL_HIGHLIGHTER"
TOOL_TEXT == "TOOL_TEXT"

ToolTypes == {TOOL_PEN, TOOL_ERASER, TOOL_HIGHLIGHTER, TOOL_TEXT}

\* tool.hasCapability(TOOL_CAP_COLOR): "pen", "highlighter", "text" take a
\* color, the eraser does not.
HasColorCapability(toolType) == toolType \in {TOOL_PEN, TOOL_HIGHLIGHTER, TOOL_TEXT}

\* A plausible slip: the name is looked up as the script wrote it.
ToLowerCaseSkipped(s) == s

\* StringUtils::toLowerCase: every character of the string through
\* tolower, which maps the letters A..Z to a..z and leaves every other
\* character as it is.
RECURSIVE ToLowerCase(_)
ToLowerCase(s) ==
    LET upper == <<"A", "B", "C", "D", "E", "F", "G", "H", "I", "J", "K", "L", "M",
                   "N", "O", "P", "Q", "R", "S", "T", "U", "V", "W", "X", "Y", "Z">>
        lower == <<"a", "b", "c", "d", "e", "f", "g", "h", "i", "j", "k", "l", "m",
                   "n", "o", "p", "q", "r", "s", "t", "u", "v", "w", "x", "y", "z">>
        tolower(c) == IF \E i \in DOMAIN upper : upper[i] = c
                      THEN lower[CHOOSE i \in DOMAIN upper : upper[i] = c]
                      ELSE c
    IN  IF Len(s) = 0
        THEN ""
        ELSE tolower(SubSeq(s, 1, 1)) \o ToLowerCase(SubSeq(s, 2, Len(s)))

\* toolTypeFromString: exact, case-sensitive names; anything else is TOOL_NONE.
toolTypeFromString(s) ==
    CASE s = "pen" -> TOOL_PEN
      [] s = "eraser" -> TOOL_ERASER
      [] s = "highlighter" -> TOOL_HIGHLIGHTER
      [] s = "text" -> TOOL_TEXT
      [] OTHER -> TOOL_NONE

ToolSizes == {"TOOL_SIZE_FINE", "TOOL_SIZE_MEDIUM", "TOOL_SIZE_THICK"}

toolSizeToString(size) ==
    CASE size = "TOOL_SIZE_FINE" -> "thin"
      [] size = "TOOL_SIZE_MEDIUM" -> "medium"
      [] size = "TOOL_SIZE_THICK" -> "thick"
      [] OTHER -> ""

toolSizeFromString(s) ==
    CASE s = "thin" -> "TOOL_SIZE_FINE"
      [] s = "medium" -> "TOOL_SIZE_MEDIUM"
      [] s = "thick" -> "TOOL_SIZE_THICK"
      [] OTHER -> "TOOL_SIZE_NONE"

\* toolHandler->getToolThickness(type): the thickness of each size, in
\* hundredths; highlighter and eraser are 2.83, 8.5 and 19.84 wide, the
\* other tools 0.85, 1.41 and 2.26.
getToolThickness(toolType) ==
    IF toolType \in {TOOL_HIGHLIGHTER, TOOL_ERASER}
    THEN [s \in ToolSizes |->
            CASE s = "TOOL_SIZE_FINE" -> 283
              [] s = "TOOL_SIZE_MEDIUM" -> 850
              [] OTHER -> 1984]
    ELSE [s \in ToolSizes |->
            CASE s = "TOOL_SIZE_FINE" -> 85
              [] s = "TOOL_SIZE_MEDIUM" -> 141
              [] OTHER -> 226]

----------------------------------------------------------------------------
(* Line styles *)

LineStyle(dashes) == [dashes |-> dashes]
PlainLine == LineStyle(<<>>)
DashLine == LineStyle(<<12, 6>>)
DotLine == LineStyle(<<1, 6>>)

\* StrokeStyle::parseStyle: a predefined name gives its dash pattern, any other
\* string (the empty one included) the default, plain LineStyle.
parseStyle(s) ==
    CASE s = "dash" -> DashLine
      [] s = "dot" -> DotLine
      [] OTHER -> PlainLine

\* StrokeStyle::formatStyle: the name of a LineStyle.
formatStyle(style) ==
    CASE style = DashLine -> "dash"
      [] style = DotLine -> "dot"
      [] OTHER -> "plain"

----------------------------------------------------------------------------
(* Host state *)

Tool(color, size) == [color |-> color, size |-> size]

\* A tool that draws strokes: pen and highlighter have a fill setting.
DrawingTool(color, size, fill, fillEnabled) ==
    [color |-> color, size |-> size, fill |-> fill, fillEnabled |-> fillEnabled]

\* The pen is the one tool with a line style.
PenTool(color, size, fill, fillEnabled, lineStyle) ==
    [color |-> color, size |-> size, fill |-> fill, fillEnabled |-> fillEnabled,
     lineStyle |-> lineStyle]

Rgb(n) == [a |-> 0, rgb |-> n]

ToolHandler(toolType, pen, highlighter) ==
    [toolType |-> toolType,
     tools |-> [t \in ToolTypes |->
                  CASE t = TOOL_PEN -> pen
                    [] t = TOOL_HIGHLIGHTER -> highlighter
                    [] OTHER -> Tool(Rgb(0), "TOOL_SIZE_MEDIUM")]]

\* The tool settings the host starts with: the pen is the active tool and
\* draws plain unfilled lines, or the eraser is active and the pen draws
\* dashed, filled lines.  Pen 0x3333cc, highlighter 0xffff00.
InitialToolHandlers ==
    { ToolHandler(TOOL_PEN,
                  PenTool(Rgb(3355596), "TOOL_SIZE_MEDIUM", 64, FALSE, PlainLine),
                  DrawingTool(Rgb(16776960), "TOOL_SIZE_MEDIUM", 128, TRUE)),
      ToolHandler(TOOL_ERASER,
                  PenTool(Rgb(3355596), "TOOL_SIZE_THICK", 64, TRUE, DashLine),
                  DrawingTool(Rgb(16776960), "TOOL_SIZE_FINE", 128, FALSE)) }

getToolType == toolHandler.toolType

\* A plausible slip: the tool as it was when the plugin was loaded (pen
\* 0x3333cc, highlighter 0xffff00), not as it is now.
getToolAtStart(toolType) ==
    [toolHandler.tools[toolType] EXCEPT
        !.color = IF toolType = TOOL_PEN THEN [a |-> 0, rgb |-> 3355596]
                  ELSE [a |-> 0, rgb |-> 16776960]]

getTool(toolType) == toolHandler.tools[toolType]
getPenSize == toolHandler.tools[TOOL_PEN].size
getPenFill == toolHandler.tools[TOOL_PEN].fill
getPenFillEnabled == toolHandler.tools[TOOL_PEN].fillEnabled
getHighlighterSize == toolHandler.tools[TOOL_HIGHLIGHTER].size
getHighlighterFill == toolHandler.tools[TOOL_HIGHLIGHTER].fill
getHighlighterFillEnabled == toolHandler.tools[TOOL_HIGHLIGHTER].fillEnabled

NoCall == [op |-> "none", result |-> "none"]

----------------------------------------------------------------------------
(* The document, the view and the plugin *)

\* lua_Integer read by luaL_checkinteger.
Integer64(hi, lo) == [hi |-> hi, lo |-> lo]

\* A size_t or an int that holds the small number n.
Small(n) == [hi |-> 0, lo |-> n]

\* The value is not negative as a signed 64-bit number.
NonNegative(i) == i.hi > 0 \/ (i.hi = 0 /\ i.lo >= 0)

\* A plausible slip: the numbers are compared as signed ones.
SignedLess(a, b) == a.hi < b.hi \/ (a.hi = b.hi /\ a.lo < b.lo)

\* a < b on size_t: the 64 bits compared as unsigned numbers.
SizeLess(a, b) ==
    IF NonNegative(a) = NonNegative(b)
    THEN a.hi < b.hi \/ (a.hi = b.hi /\ a.lo < b.lo)
    ELSE NonNegative(a)

\* A plausible slip: the offset is not added.
SizePlusNothing(a, n) == a

\* size_t arithmetic with a small second operand (no carry out of the
\* low word for the numbers of the model).
SizePlus(a, n) == [hi |-> a.hi, lo |-> a.lo + n]

\* int val = luaL_checkinteger(L, 1): the low 32 bits.
ToInt(i) == i.lo

\* npos, the pdf page number of a page without pdf background.
NPOS == -1

\* A page: its size, the visibility of its content layers (layer k is
\* layers[k]), the selected layer (0 is the background), the visibility and
\* the name of the background, and the pdf page behind it.
XojPage(width, height, layers, currentLayer, isPdf, pdfPageNr) ==
    [width |-> width, height |-> height, layers |-> layers,
     currentLayer |-> currentLayer, backgroundVisible |-> TRUE,
     backgroundName |-> "Background", isPdf |-> isPdf, pdfPageNr |-> pdfPageNr]

\* XojPdfPage::getWidth / getHeight of pdf page n (from 0): its natural size.
PdfPageSize(n) == [width |-> 612 + 10 * n, height |-> 792]

\* A4 in points, rounded.
A4Width == 595
A4Height == 842

\* A page without pdf background, with n content layers, the last selected.
PlainPage(n) == XojPage(A4Width, A4Height, [k \in 1..n |-> TRUE], n, FALSE, NPOS)

\* A page on pdf page n, with one content layer.
PdfPage(n) ==
    XojPage(PdfPageSize(n).width, PdfPageSize(n).height, <<TRUE>>, 1, TRUE, n)

\* The host beside the tools: the pages, control->getCurrentPageNo(), the
\* page the view was last scrolled to (-1: never), doc->getPdfPageCount(),
\* plugin->isInInitUi(), the registered menu entries, and for the last call
\* the notifications fired, the number of doc->lock() calls, what the file
\* dialog it opened was given (<<>>: no dialog; the suggested name for
\* saveAs, the filter patterns for getFilePath), the number of native
\* dialogs created and not yet released, and the order in which the document
\* was locked, changed, unlocked and the listeners notified.
Host(pages, currentPage, pdfPageCount, inInitUi) ==
    [pages |-> pages, currentPage |-> currentPage, scrolledTo |-> -1,
     pdfPageCount |-> pdfPageCount, inInitUi |-> inInitUi, menus |-> <<>>,
     fired |-> <<>>, locks |-> 0, dialog |-> <<>>, native |-> 0, trace |-> <<>>]

\* The host of the stroke and tool calls: one plain page when there is a
\* current page, no page at all otherwise.
StrokeHost(page) ==
    IF page THEN Host(<<PlainPage(1)>>, 0, 0, FALSE) ELSE Host(<<>>, 0, 0, FALSE)

\* A stroke drawn by hand before the script runs.
ExistingStroke ==
    Stroke(<<Point(0, 0, NO_PRESSURE), Point(5, 5, NO_PRESSURE)>>, STROKE_TOOL_PEN,
           141, Rgb(0), NO_FILL, PlainLine)

\* The selected layer holds up to MaxElements - 1 elements when the script starts.
Init ==
    /\ alive = TRUE
    /\ hasPage \in BOOLEAN
    /\ layer \in {[i \in 1..k |-> ExistingStroke] : k \in 0..(MaxElements - 1)}
    /\ toolHandler \in InitialToolHandlers
    /\ selection \in (IF hasPage THEN {Nil, Some(Rgb(255))} ELSE {Nil})
    /\ host = StrokeHost(hasPage)
    /\ call = NoCall

\* What the build can do once a call has undefined behaviour: stop with a
\* fault, or run on with a corrupted object.
UBOutcomes == {"crash", "corrupt"}

----------------------------------------------------------------------------
(* The Lua stack *)

LuaNil == [type |-> "nil"]
LuaNumber(n) == [type |-> "number", value |-> n]
LuaTable(items) == [type |-> "table", items |-> items]

lua_istable(v) == v.type = "table"

\* The value at a negative (top-relative) stack index.
StackAt(stack, idx) == stack[Len(stack) + 1 + idx]

\* while (lua_next(L, -2)) stream.push_back(lua_tonumber(L, -1)): the values
\* of the table, in the order of its keys.
ReadStream(table) == [i \in 1..Len(table.items) |-> table.items[i]]

----------------------------------------------------------------------------
(* Outcomes of a call *)

\* luaL_error: the call is left at once; a draft allocated with new and not
\* yet handed to the layer stays allocated.
Raise(msg, draft) ==
    [result |-> "error", msg |-> msg, nret |-> 0, draft |-> draft, layer |-> layer]

Undefined(outcome) ==
    [result |-> outcome, msg |-> "", nret |-> 0, draft |-> "leaked", layer |-> layer]

----------------------------------------------------------------------------
(* addStrokeHelper *)

\* luaL_optstring(L, -5, "")
ToolTag(arg) == IF IsNil(arg.tool) THEN "" ELSE Val(arg.tool)

\* The attributes addStrokeHelper gives the stroke: the field of the argument
\* where it has the type looked for, else the value read from the tool.
ResolveAttributes(arg) ==
    LET highlighter == ToolTag(arg) = "highlighter"
        toolType == IF highlighter THEN TOOL_HIGHLIGHTER ELSE TOOL_PEN
        size == IF highlighter THEN toolSizeToString(getHighlighterSize)
                               ELSE toolSizeToString(getPenSize)
        thickness == getToolThickness(toolType)[toolSizeFromString(size)]
        fillOpacity == IF highlighter THEN getHighlighterFill ELSE getPenFill
        filled == IF highlighter THEN getHighlighterFillEnabled ELSE getPenFillEnabled
        color == getTool(toolType).color
        \* std::string lineStyle is set in the pen branch only
        lineStyle == IF highlighter THEN "" ELSE formatStyle(getTool(TOOL_PEN).lineStyle)
    IN  [toolType |-> IF highlighter THEN STROKE_TOOL_HIGHLIGHTER ELSE STROKE_TOOL_PEN,
         width |-> IF ~IsNil(arg.width) THEN Val(arg.width) ELSE thickness,
         color |-> IF ~IsNil(arg.color) THEN Color(AsUint32(Val(arg.color))) ELSE color,
         fill |-> IF ~IsNil(arg.fill) THEN Val(arg.fill)
                  ELSE IF filled THEN fillOpacity ELSE NO_FILL,
         lineStyle |-> IF ~IsNil(arg.lineStyle) THEN parseStyle(Val(arg.lineStyle))
                       ELSE parseStyle(lineStyle)]

addStrokeHelper(points, arg) ==
    IF Len(points) >= 2
    THEN LET at == ResolveAttributes(arg)
             stroke == Stroke(points, at.toolType, at.width, at.color, at.fill,
                              at.lineStyle)
         IN  [result |-> "ok", msg |-> "", nret |-> 0, draft |-> "owned",
              layer |-> Append(layer, stroke)]
    ELSE \* fewer than two points: warn, delete stroke
         [result |-> "discard", msg |-> "", nret |-> 0, draft |-> "released",
          layer |-> layer]

----------------------------------------------------------------------------
(* addStroke *)

\* A plausible slip: the pressure stream is read but never used.
StrokePointsNoPressure(xStream, yStream, pressureStream) ==
    [i \in 1..Len(xStream) |-> Point(yStream[i], xStream[i], NO_PRESSURE)]

\* Point(yStream.at(i), xStream.at(i), pressure): the first argument of Point
\* is its x.
StrokePoints(xStream, yStream, pressureStream) ==
    [i \in 1..Len(xStream) |->
        Point(yStream[i], xStream[i],
              IF Len(pressureStream) > 0 THEN pressureStream[i] ELSE NO_PRESSURE)]

\* A plausible slip: only an x table longer than the y table is refused.
LengthsDifferOneWay(xStream, yStream) == Len(xStream) > Len(yStream)

\* xStream.size() != yStream.size()
LengthsDiffer(xStream, yStream) == Len(xStream) # Len(yStream)

\* The outcomes of applib_addStroke on the current state.
applib_addStroke(arg) ==
    IF ~hasPage
    THEN \* page->getSelectedLayer() on an empty PageRef
         {Undefined(o) : o \in UBOutcomes}
    ELSE
    LET stackX == <<LuaTable(<<>>), LuaNil, arg.x, LuaNil>>
        stackY == <<LuaTable(<<>>), LuaNil, arg.y, LuaNil>>
        stackP == <<LuaTable(<<>>), LuaNil, arg.pressure, LuaNil>>
    IN  IF ~lua_istable(StackAt(stackX, -2))
        THEN {Raise("Missing X-Coordinate table!", "leaked")}
        ELSE IF ~lua_istable(StackAt(stackY, -2))
        THEN {Raise("Missing Y-Coordinate table!", "leaked")}
        ELSE
        LET xStream == ReadStream(StackAt(stackX, -2))
            yStream == ReadStream(StackAt(stackY, -2))
            pressureStream == IF lua_istable(StackAt(stackP, -2))
                              THEN ReadStream(StackAt(stackP, -2))
                              ELSE <<>>
        IN  IF LengthsDiffer(xStream, yStream)
            THEN {Raise("X and Y vectors are not equal length!", "leaked")}
            ELSE IF Len(xStream) # Len(pressureStream) /\ Len(pressureStream) > 0
            THEN {Raise("Pressure vector is not equal length!", "leaked")}
            ELSE IF Len(xStream) < 2
            THEN \* return 1 with the stroke neither added nor deleted
                 {[result |-> "discard", msg |-> "", nret |-> 1, draft |-> "leaked",
                   layer |-> layer]}
            ELSE {addStrokeHelper(StrokePoints(xStream, yStream, pressureStream), arg)}

Called(op, arg, r) ==
    [op |-> op, arg |-> arg, result |-> r.result, msg |-> r.msg, nret |-> r.nret,
     draft |-> r.draft]

AddStroke(arg) ==
    /\ alive
    /\ Len(layer) < MaxElements
    /\ \E r \in applib_addStroke(arg) :
         /\ alive' = (r.result \notin UBOutcomes)
         /\ layer' = r.layer
         /\ call' = Called("addStroke", arg, r)
    /\ UNCHANGED <<hasPage, toolHandler, selection, host>>

----------------------------------------------------------------------------
(* Spline segments *)

SplineSegment(start, ctrl1, ctrl2, end) ==
    [firstKnot |-> start, firstControlPoint |-> ctrl1,
     secondControlPoint |-> ctrl2, secondKnot |-> end]

\* c lies on the line segment from p to q.
OnChord(p, q, c) ==
    /\ (q.x - p.x) * (c.y - p.y) = (q.y - p.y) * (c.x - p.x)
    /\ (c.x - p.x) * (c.x - q.x) <= 0
    /\ (c.y - p.y) * (c.y - q.y) <= 0

\* A segment whose control points lie on its chord is a straight line.
isFlatEnough(seg) ==
    /\ OnChord(seg.firstKnot, seg.secondKnot, seg.firstControlPoint)
    /\ OnChord(seg.firstKnot, seg.secondKnot, seg.secondControlPoint)

\* The point of the curve at parameter 1/2 (de Casteljau).
MidPoint(seg) ==
    Point((seg.firstKnot.x + 3 * seg.firstControlPoint.x
             + 3 * seg.secondControlPoint.x + seg.secondKnot.x) \div 8,
          (seg.firstKnot.y + 3 * seg.firstControlPoint.y
             + 3 * seg.secondControlPoint.y + seg.secondKnot.y) \div 8,
          NO_PRESSURE)

\* SplineSegment::toPointSequence: the points approximating the segment, its
\* second knot left out: the first knot alone for a flat segment, else the
\* first knot and the point the segment is subdivided at.
toPointSequence(seg) ==
    IF isFlatEnough(seg) THEN <<seg.firstKnot>> ELSE <<seg.firstKnot, MidPoint(seg)>>

\* The segment made of coordStream[i+1 .. i+8] (i counts from 0 as in the code).
SegmentAt(coordStream, i) ==
    SplineSegment(Point(coordStream[i + 1], coordStream[i + 2], NO_PRESSURE),
                  Point(coordStream[i + 3], coordStream[i + 4], NO_PRESSURE),
                  Point(coordStream[i + 5], coordStream[i + 6], NO_PRESSURE),
                  Point(coordStream[i + 7], coordStream[i + 8], NO_PRESSURE))

\* A plausible slip: the loop is left after its first segment.
SplinePointsFirstOnly(coordStream, i) ==
    IF i < Len(coordStream) THEN toPointSequence(SegmentAt(coordStream, i)) ELSE <<>>

\* while (i < coordStream.size()) { ...; i += 8; for (point: raster) addPoint }
RECURSIVE SplinePoints(_, _)
SplinePoints(coordStream, i) ==
    IF i < Len(coordStream)
    THEN toPointSequence(SegmentAt(coordStream, i)) \o SplinePoints(coordStream, i + 8)
    ELSE <<>>

----------------------------------------------------------------------------
(* addSpline *)

applib_addSpline(arg) ==
    IF ~hasPage
    THEN \* page->getSelectedLayer() on an empty PageRef
         {Undefined(o) : o \in UBOutcomes}
    ELSE
    LET \* lua_getfield(L, 1, "splines")
        stack == <<LuaTable(<<>>), arg.splines>>
    IN  IF ~lua_istable(StackAt(stack, -2))
        THEN {Raise("Missing Spline table!", "leaked")}
        ELSE
        LET \* lua_pushnil(L); lua_next(L, -2)
            pushed == Append(stack, LuaNil)
            table == StackAt(pushed, -2)
        IN  IF ~lua_istable(table)
            THEN \* lua_next on a value that is no table
                 {Undefined(o) : o \in UBOutcomes}
            ELSE
            LET coordStream == ReadStream(table)
            IN  IF Len(coordStream) % 8 # 0
                THEN {Raise("Spline table incomplete!", "leaked")}
                ELSE {addStrokeHelper(SplinePoints(coordStream, 0), arg)}

AddSpline(arg) ==
    /\ alive
    /\ Len(layer) < MaxElements
    /\ \E r \in applib_addSpline(arg) :
         /\ alive' = (r.result \notin UBOutcomes)
         /\ layer' = r.layer
         /\ call' = Called("addSpline", arg, r)
    /\ UNCHANGED <<hasPage, toolHandler, selection, host>>

----------------------------------------------------------------------------
(* changeToolColor *)

\* tool.setColor(color)
setColor(th, toolType, color) ==
    [th EXCEPT !.tools[toolType].color = color]

\* ctrl->changeColorOfSelection(): the call hands no color over; the
\* selection, if there is one, takes the color of the active tool
\* (toolHandler->getColor()) of the tool handler th.
changeColorOfSelection(sel, th) ==
    IF IsNil(sel) THEN sel ELSE Some(th.tools[th.toolType].color)

\* The outcome of applib_changeToolColor on the current state.
applib_changeToolColor(arg) ==
    LET sel == IF ~IsNil(arg.selection) THEN Val(arg.selection) ELSE FALSE
        toolType == IF ~IsNil(arg.tool)
                    THEN toolTypeFromString(ToLowerCase(Val(arg.tool)))
                    ELSE getToolType
        \* uint32_t color = 0x000000, overwritten when the field is an integer
        color == IF ~IsNil(arg.color) THEN AsUint32(Val(arg.color)) ELSE Rgb(0)
        unchanged == [toolHandler |-> toolHandler, selection |-> selection]
    IN  IF toolType = TOOL_NONE
        THEN [result |-> "skip", msg |-> "tool is not valid", nret |-> 0] @@ unchanged
        ELSE IF ~IsNil(arg.color) /\ AboveRgb(color)
        THEN [result |-> "skip", msg |-> "no valid RGB color", nret |-> 0] @@ unchanged
        ELSE IF HasColorCapability(toolType)
        THEN [result |-> "ok", msg |-> "", nret |-> 1,
              toolHandler |-> setColor(toolHandler, toolType, Color(color)),
              selection |-> IF sel
                            THEN changeColorOfSelection(
                                     selection,
                                     setColor(toolHandler, toolType, Color(color)))
                            ELSE selection]
        ELSE [result |-> "skip", msg |-> "tool has no color capability", nret |-> 1]
             @@ unchanged

ChangeToolColor(arg) ==
    /\ alive
    /\ LET r == applib_changeToolColor(arg)
       IN  /\ toolHandler' = r.toolHandler
           /\ selection' = r.selection
           /\ call' = [op |-> "changeToolColor", arg |-> arg, result |-> r.result,
                       msg |-> r.msg, nret |-> r.nret, draft |-> "none"]
    /\ UNCHANGED <<alive, hasPage, layer, host>>

----------------------------------------------------------------------------
(* getToolInfo *)

\* lua_pushinteger(L, int(uint32_t(color))): the 32 bits read as a signed int
\* and widened.
PushColor(color) ==
    LuaInteger(IF color.a >= 128 THEN -1 ELSE 0, color.a, color.rgb)

\* toolTypeToString: the name of the active tool's type.
toolTypeToString(toolType) ==
    CASE toolType = TOOL_PEN -> "pen"
      [] toolType = TOOL_ERASER -> "eraser"
      [] toolType = TOOL_HIGHLIGHTER -> "highlighter"
      [] toolType = TOOL_TEXT -> "text"
      [] OTHER -> "none"

\* lua_newtable(L) with no field set.
EmptyTable == [k \in {} |-> Nil]

\* strcmp(mode, name) == 0
ModeIs(mode, name) == mode = name

\* The table applib_getToolInfo returns, the value on top of the stack at
\* return 1, with every key the code sets.  The fields are read from the
\* tool handler; the drawing type of the tools, the eraser type and the
\* font of the settings are attributes the model does not vary: they are
\* read at the values a session starts with (DRAWING_TYPE_DEFAULT,
\* ERASER_TYPE_DEFAULT, the font Sans 12).  For "active",
\* toolHandler->getFill() is the fill of the active tool when it has one
\* and it is enabled and -1 otherwise, and toolHandler->getLineStyle() the
\* line style of the active tool, the plain line for a tool without one; no
\* "thickness" key is set, the thickness is size.value.  For pen, eraser
\* and highlighter "size" is the table {name, value}.  The highlighter
\* table has no lineStyle; for "text" a second table is created above the
\* first and is the one returned; for a mode that is none of the five the
\* table stays empty.
applib_getToolInfo(mode) ==
    LET drawingType == "default"   \* drawingTypeToString(tool.getDrawingType())
        eraserType == "default"    \* eraserTypeToString(toolHandler->getEraserType())
        font == [name |-> "Sans", size |-> 12]   \* settings->getFont()
    IN
    IF ModeIs(mode, "active")
    THEN LET tool == getTool(getToolType)
             toolSize == toolSizeToString(tool.size)
             thickness == getToolThickness(getToolType)[tool.size]
             fillOpacity == IF "fillEnabled" \in DOMAIN tool /\ tool.fillEnabled
                            THEN tool.fill ELSE NO_FILL
             lineStyle == IF "lineStyle" \in DOMAIN tool
                          THEN tool.lineStyle ELSE PlainLine
         IN  [type |-> toolTypeToString(getToolType),
              size |-> [name |-> toolSize, value |-> thickness],
              color |-> PushColor(tool.color),
              fillOpacity |-> fillOpacity,
              drawingType |-> drawingType,
              lineStyle |-> formatStyle(lineStyle)]
    ELSE IF ModeIs(mode, "pen")
    THEN LET size == toolSizeToString(getPenSize)
             thickness == getToolThickness(TOOL_PEN)[toolSizeFromString(size)]
         IN  [size |-> [name |-> size, value |-> thickness],
              color |-> PushColor(getTool(TOOL_PEN).color),
              drawingType |-> drawingType,
              lineStyle |-> formatStyle(getTool(TOOL_PEN).lineStyle),
              filled |-> getPenFillEnabled,
              fillOpacity |-> getPenFill]
    ELSE IF ModeIs(mode, "highlighter")
    THEN LET size == toolSizeToString(getHighlighterSize)
             thickness == getToolThickness(TOOL_HIGHLIGHTER)[toolSizeFromString(size)]
         IN  [size |-> [name |-> size, value |-> thickness],
              color |-> PushColor(getTool(TOOL_HIGHLIGHTER).color),
              drawingType |-> drawingType,
              filled |-> getHighlighterFillEnabled,
              fillOpacity |-> getHighlighterFill]
    ELSE IF ModeIs(mode, "eraser")
    THEN LET size == toolSizeToString(getTool(TOOL_ERASER).size)
             thickness == getToolThickness(TOOL_ERASER)[toolSizeFromString(size)]
         IN  [type |-> eraserType,
              size |-> [name |-> size, value |-> thickness]]
    ELSE IF ModeIs(mode, "text")
    THEN [font |-> font,
          color |-> PushColor(getTool(TOOL_TEXT).color)]
    ELSE EmptyTable

\* One call of getToolInfo: luaL_checkstring accepts the mode string, the
\* table is built and return 1 hands it back; no setter of the tool handler
\* is called.
GetToolInfo(mode) ==
    /\ alive
    /\ call' = [op |-> "getToolInfo", arg |-> [mode |-> mode], result |-> "ok",
                msg |-> "", nret |-> 1, values |-> <<applib_getToolInfo(mode)>>]
    /\ UNCHANGED <<alive, hasPage, layer, toolHandler, selection, host>>

----------------------------------------------------------------------------
(* Calls on the document *)

\* An outcome of a call on the document: the host it leaves, the number of
\* values handed back to the script and the values the call pushed itself
\* (when nret is larger than their number, what lies below them on the
\* stack, an argument, is handed back).
Done(nret, values, after) ==
    [result |-> "ok", msg |-> "", nret |-> nret, values |-> values, host |-> after]

\* luaL_error(L, msg): the call is left at once, with the host as it is then.
Fail(msg, after) ==
    [result |-> "error", msg |-> msg, nret |-> 0, values |-> <<>>, host |-> after]

\* Undefined behaviour (a call through an empty PageRef, std::clamp with
\* hi < lo): the host is no longer to be relied on.
Broken(outcome, after) ==
    [result |-> outcome, msg |-> "", nret |-> 0, values |-> <<>>, host |-> after]

\* The host when a call starts: nothing fired, no lock taken, no dialog
\* opened yet.
Entered ==
    [host EXCEPT !.fired = <<>>, !.locks = 0, !.dialog = <<>>, !.native = 0,
                 !.trace = <<>>]

Returned(op, arg, r) ==
    [op |-> op, arg |-> arg, result |-> r.result, msg |-> r.msg, nret |-> r.nret,
     values |-> r.values]

\* A call that has not returned yet: it waits for the user's answer to a
\* dialog, or has unlocked the document and not yet notified the listeners.
Running(op, arg) ==
    [op |-> op, arg |-> arg, result |-> "running", msg |-> "", nret |-> 0,
     values |-> <<>>]

\* The call returns with one of the outcomes.
Return(op, arg, outcomes) ==
    /\ alive
    /\ \E r \in outcomes :
         /\ alive' = (r.result \notin UBOutcomes)
         /\ host' = r.host
         /\ call' = Returned(op, arg, r)
    /\ UNCHANGED <<hasPage, layer, toolHandler, selection>>

\* One call of an entry point that works on the document and returns
\* without waiting; the interpreter starts no call while another runs.
Entry(op, arg, outcomes) ==
    /\ call.result # "running"
    /\ Return(op, arg, outcomes)

\* lua_isboolean(L, n) ? lua_toboolean(L, n) : default
OptBoolean(o, default) == IF IsNil(o) THEN default ELSE Val(o)

\* std::clamp on int; lo <= hi is required.
clamp(v, lo, hi) == IF v < lo THEN lo ELSE IF hi < v THEN hi ELSE v

\* std::clamp on size_t; lo <= hi is required.
clampSize(v, lo, hi) == IF SizeLess(v, lo) THEN lo ELSE IF SizeLess(hi, v) THEN hi ELSE v

\* applib_scrollToPage: arg.page is the first argument, arg.relative the
\* second.
applib_scrollToPage(arg) ==
    LET val == ToInt(arg.page)
        relative == OptBoolean(arg.relative, FALSE)
        page == IF relative THEN host.currentPage + val ELSE val - 1
        first == 0
        last == Len(host.pages) - 1
    IN  IF last < first
        THEN {Broken(o, Entered) : o \in UBOutcomes}
        ELSE {Done(1, <<>>, [Entered EXCEPT !.scrolledTo = clamp(page, first, last)])}

ScrollToPage(arg) == Entry("scrollToPage", arg, applib_scrollToPage(arg))

\* applib_setCurrentPage: firePageSelected makes the page the current one.
applib_setCurrentPage(arg) ==
    LET pageId == arg.page
        first == Small(1)
        last == Small(Len(host.pages))
    IN  IF SizeLess(last, first)
        THEN {Broken(o, Entered) : o \in UBOutcomes}
        ELSE {Done(1, <<>>,
                   [Entered EXCEPT !.currentPage = clampSize(pageId, first, last).lo - 1])}

SetCurrentPage(arg) == Entry("setCurrentPage", arg, applib_setCurrentPage(arg))

\* control->getCurrentPage(): the page at getCurrentPageNo().
getCurrentPage == host.pages[host.currentPage + 1]

\* The host with the current page replaced.
WithCurrentPage(h, page) == [h EXCEPT !.pages[host.currentPage + 1] = page]

\* control->firePageSizeChanged(pageNo)
PageSizeChanged(pageNo) == [event |-> "pageSizeChanged", page |-> pageNo]

\* A plausible slip: the listeners are notified before the document is
\* locked and changed.
firePageSizeChangedFirst(h, pageNo) ==
    [h EXCEPT !.fired = Append(@, PageSizeChanged(pageNo)),
              !.trace = <<"notify">> \o @]

\* control->firePageSizeChanged(pageNo), after what the call did before.
firePageSizeChanged(h, pageNo) ==
    [h EXCEPT !.fired = Append(@, PageSizeChanged(pageNo)),
              !.trace = Append(@, "notify")]

\* The first part of applib_setPageSize on a document with a current page,
\* up to doc->unlock(): arg.width, arg.height and the optional arg.relative
\* are resolved, and a size above zero is set under the document lock.
setPageSizeLocked(arg) ==
    LET page == getCurrentPage
        relative == OptBoolean(arg.relative, FALSE)
        width == IF relative THEN arg.width + page.width ELSE arg.width
        height == IF relative THEN arg.height + page.height ELSE arg.height
    IN  \* doc->lock(); Document::setPageSize(page, width, height); doc->unlock()
        IF width > 0 /\ height > 0
        THEN [WithCurrentPage(Entered, [page EXCEPT !.width = width,
                                                     !.height = height])
              EXCEPT !.locks = 1, !.trace = <<"lock", "mutate", "unlock">>]
        ELSE Entered

\* The second part, on the host h as the document is then:
\* pageNo = doc->indexOf(page), and the listeners are notified when
\* pageNo != npos && pageNo < doc->getPageCount().
setPageSizeNotify(h) ==
    LET pageNo == h.currentPage
    IN  IF pageNo # NPOS /\ pageNo < Len(h.pages)
        THEN firePageSizeChanged(h, pageNo)
        ELSE h

\* applib_setPageSize from the call to its return.
applib_setPageSize(arg) ==
    IF ~hasPage
    THEN {Fail("No page!", Entered)}
    ELSE {Done(1, <<>>, setPageSizeNotify(setPageSizeLocked(arg)))}

\* The size that would be set stays within MaxExtent.
WithinExtent(arg) ==
    (hasPage /\ OptBoolean(arg.relative, FALSE)
     /\ arg.width + getCurrentPage.width > 0
     /\ arg.height + getCurrentPage.height > 0)
        => /\ arg.width + getCurrentPage.width <= MaxExtent
           /\ arg.height + getCurrentPage.height <= MaxExtent

\* A setPageSize call up to the release of the document lock; without a
\* current page the call ends in the error at once.  The call has the page
\* as it was before in call.before.
SetPageSize(arg) ==
    /\ WithinExtent(arg)
    /\ IF ~hasPage
       THEN Entry("setPageSize", arg, applib_setPageSize(arg))
       ELSE /\ alive
            /\ call.result # "running"
            /\ host' = setPageSizeLocked(arg)
            /\ call' = [before |-> getCurrentPage] @@ Running("setPageSize", arg)
            /\ UNCHANGED <<alive, hasPage, layer, toolHandler, selection>>

\* The rest of the setPageSize call, after the lock was released: the page
\* is looked up, the listeners are notified and the call returns.
SetPageSizeNotify ==
    /\ call.op = "setPageSize"
    /\ call.result = "running"
    /\ Return("setPageSize", call.arg, {Done(1, <<>>, setPageSizeNotify(host))})

\* layerId > layerCount on size_t
Exceeds(layerId, layerCount) == SizeLess(Small(layerCount), layerId)

\* LayerController::switchToLay(layerId, update): the layer becomes the
\* selected one; with update the layers up to it are shown and the layers
\* above it hidden.
switchToLay(page, layerId, update) ==
    [page EXCEPT !.currentLayer = layerId,
                 !.backgroundVisible = IF update THEN TRUE ELSE @,
                 !.layers = IF update
                            THEN [k \in 1..Len(page.layers) |-> k <= layerId]
                            ELSE @]

\* applib_setCurrentLayer: arg.layerId and the optional arg.update.
applib_setCurrentLayer(arg) ==
    IF ~hasPage
    THEN {Fail("No page!", Entered)}
    ELSE
    LET page == getCurrentPage
        layerCount == Len(page.layers)
        layerId == arg.layerId
    IN  \* layerId < 0 never holds on size_t
        IF Exceeds(layerId, layerCount)
        THEN {Fail("No layer with layer ID", Entered)}
        ELSE LET update == OptBoolean(arg.update, FALSE)
             IN  {Done(1, <<>>,
                       WithCurrentPage(Entered, switchToLay(page, layerId.lo, update)))}

SetCurrentLayer(arg) == Entry("setCurrentLayer", arg, applib_setCurrentLayer(arg))

\* applib_changeBackgroundPdfPageNr: arg.nr and the optional arg.relative.
applib_changeBackgroundPdfPageNr(arg) ==
    LET nr == arg.nr
        relative == OptBoolean(arg.relative, TRUE)
    IN  IF ~hasPage
        THEN {Fail("No page!", Entered)}
        ELSE
        LET page == getCurrentPage
            isPdf == page.isPdf
        IN  IF relative /\ ~isPdf
            THEN {Fail("Current page has no pdf background, cannot use relative mode!",
                       Entered)}
            ELSE
            LET selected == IF relative THEN SizePlus(nr, page.pdfPageNr)
                            ELSE SizePlus(nr, -1)
            IN  \* selected >= 0 always holds on size_t
                IF SizeLess(selected, Small(host.pdfPageCount))
                THEN {Done(1, <<>>,
                           WithCurrentPage(Entered,
                               [page EXCEPT !.isPdf = TRUE,
                                            !.pdfPageNr = selected.lo,
                                            !.width = PdfPageSize(selected.lo).width,
                                            !.height = PdfPageSize(selected.lo).height]))}
                ELSE {Fail("Pdf page number does not exist!", Entered)}

ChangeBackgroundPdfPageNr(arg) ==
    Entry("changeBackgroundPdfPageNr", arg, applib_changeBackgroundPdfPageNr(arg))

\* applib_setLayerVisibility: arg.enabled is the optional first argument.
applib_setLayerVisibility(arg) ==
    LET enabled == OptBoolean(arg.enabled, TRUE)
    IN  IF ~hasPage
        THEN \* control->getCurrentPage()->getSelectedLayerId() on an empty PageRef
             {Broken(o, Entered) : o \in UBOutcomes}
        ELSE LET page == getCurrentPage
                 layerId == page.currentLayer
             IN  {Done(1, <<>>,
                       WithCurrentPage(Entered,
                           IF layerId = 0
                           THEN [page EXCEPT !.backgroundVisible = enabled]
                           ELSE [page EXCEPT !.layers[layerId] = enabled]))}

SetLayerVisibility(arg) ==
    Entry("setLayerVisibility", arg, applib_setLayerVisibility(arg))

\* applib_setBackgroundName: arg.name is the first argument, nil when it is
\* no string.
applib_setBackgroundName(arg) ==
    IF ~hasPage
    THEN {Fail("No page!", Entered)}
    ELSE IF ~IsNil(arg.name)
    THEN {Done(1, <<>>, WithCurrentPage(Entered,
                            [getCurrentPage EXCEPT !.backgroundName = Val(arg.name)]))}
    ELSE {Done(1, <<>>, Entered)}

SetBackgroundName(arg) == Entry("setBackgroundName", arg, applib_setBackgroundName(arg))

\* applib_scaleTextElements: the selection is cleared, then the text
\* elements of the selected layer are scaled; the layers of the model hold
\* strokes only.
applib_scaleTextElements(arg) ==
    IF ~hasPage
    THEN \* control->getCurrentPage()->getSelectedLayer() on an empty PageRef
         {Broken(o, Entered) : o \in UBOutcomes}
    ELSE {Done(1, <<>>, Entered)}

ScaleTextElements(arg) ==
    /\ alive
    /\ \E r \in applib_scaleTextElements(arg) :
         /\ alive' = (r.result \notin UBOutcomes)
         /\ host' = r.host
         /\ call' = Returned("scaleTextElements", arg, r)
    /\ selection' = Nil
    /\ UNCHANGED <<hasPage, layer, toolHandler>>

----------------------------------------------------------------------------
(* registerUi and saveAs *)

\* A plausible slip: the phase of the plugin is not looked at.
isInInitUiAlways == TRUE

\* plugin->isInInitUi()
isInInitUi == host.inInitUi

\* luaL_optstring(L, n, nullptr), nullptr then replaced by ""
OrEmpty(o) == IF IsNil(o) THEN "" ELSE Val(o)

\* Plugin::registerMenu(menu, callback, accelerator): the entry is added to
\* the plugin's menu entries and its index is the menu id.
registerMenu(h, menu, callback, accelerator) ==
    [h EXCEPT !.menus = Append(@, [menu |-> menu, callback |-> callback,
                                   accelerator |-> accelerator])]

\* applib_registerUi: arg holds the optional fields accelerator, menu and
\* callback of the table.
applib_registerUi(arg) ==
    IF ~isInInitUi
    THEN {Fail("registerUi needs to be called within initUi()", Entered)}
    ELSE IF IsNil(arg.callback)
    THEN {Fail("Missing callback function!", Entered)}
    ELSE LET menu == OrEmpty(arg.menu)
             accelerator == OrEmpty(arg.accelerator)
             toolbarId == -1
             menuId == Len(host.menus)
         IN  {Done(1, << [menuId |-> menuId, toolbarId |-> toolbarId] >>,
                   registerMenu(Entered, menu, Val(arg.callback), accelerator))}

RegisterUi(arg) ==
    /\ Len(host.menus) < MaxMenus
    /\ Entry("registerUi", arg, applib_registerUi(arg))

\* The host has run the plugin's initUi() and leaves the UI-init phase.
InitUiDone ==
    /\ alive
    /\ call.result # "running"
    /\ host.inInitUi
    /\ host' = [host EXCEPT !.inInitUi = FALSE]
    /\ call' = NoCall
    /\ UNCHANGED <<alive, hasPage, layer, toolHandler, selection>>

\* What the user does with the dialog: a file is chosen or the dialog is
\* cancelled.
Responses == {Some("/home/user/notes.xopp"), Nil}

\* applib_saveAs: arg.suggestion is the first argument, nil when the call
\* has no argument.  luaL_checkstring(L, -1) on an empty stack reads below
\* the stack: the builds raise the argument error or stop in an API check.
applib_saveAs(arg, response) ==
    IF IsNil(arg.suggestion)
    THEN {Fail("bad argument to 'saveAs' (string expected)", Entered),
          Broken("crash", Entered)}
    ELSE LET filename == Val(arg.suggestion)
             opened == [Entered EXCEPT !.dialog = Some(filename), !.native = 1]
             \* g_object_unref(native)
             released == [opened EXCEPT !.native = 0]
         IN  \* res == GTK_RESPONSE_ACCEPT
             IF ~IsNil(response)
             THEN {Done(1, <<Val(response)>>, released)}
             ELSE {Done(0, <<>>, released)}

\* A dialog call up to gtk_native_dialog_run, which waits for the user in
\* a main loop of its own: the dialog is created and given the suggestion
\* or the filters, and the call does not return yet.
OpenDialog(op, arg, given) ==
    /\ alive
    /\ call.result # "running"
    /\ host' = [Entered EXCEPT !.dialog = Some(given), !.native = 1]
    /\ call' = Running(op, arg)
    /\ UNCHANGED <<alive, hasPage, layer, toolHandler, selection>>

\* A saveAs call up to the wait for the user; without a string argument
\* the call ends before the dialog is created.
SaveAs(arg) ==
    IF IsNil(arg.suggestion)
    THEN Entry("saveAs", arg, applib_saveAs(arg, Nil))
    ELSE OpenDialog("saveAs", arg, Val(arg.suggestion))

\* applib_getFilePath: arg.filters is the table of patterns, nil when the
\* call has no argument.  The dialog is created first; without an argument
\* lua_next(L, -2) is called on a slot below the stack that holds no table.
applib_getFilePath(arg, response) ==
    LET created == [Entered EXCEPT !.native = 1]
    IN  IF IsNil(arg.filters)
        THEN {Broken(o, created) : o \in UBOutcomes}
        ELSE LET formats == Val(arg.filters)
                 \* the filter is added when formats.size() > 0
                 opened == [created EXCEPT !.dialog = Some(formats)]
                 \* g_object_unref(native)
                 released == [opened EXCEPT !.native = 0]
             IN  IF ~IsNil(response)
                 THEN {Done(1, <<Val(response)>>, released)}
                 ELSE {Done(0, <<>>, released)}

\* A getFilePath call up to the wait for the user; without an argument
\* the call breaks while it reads the filters.
GetFilePath(arg) ==
    IF IsNil(arg.filters)
    THEN Entry("getFilePath", arg, applib_getFilePath(arg, Nil))
    ELSE OpenDialog("getFilePath", arg, Val(arg.filters))

\* The user answers the dialog: gtk_native_dialog_run returns, the dialog
\* is released and the call returns the path or nothing.
DialogResponse(response) ==
    /\ call.op \in {"saveAs", "getFilePath"}
    /\ call.result = "running"
    /\ Return(call.op, call.arg,
              IF call.op = "saveAs"
              THEN applib_saveAs(call.arg, response)
              ELSE applib_getFilePath(call.arg, response))

----------------------------------------------------------------------------
(* getDocumentStructure *)

\* A plausible slip: the background layer is left out.
ContentLayerKeys(page) == 1..Len(page.layers)

\* The keys of a page's "layers" table: 0 for the background, then
\* ++currLayer for each layer.
LayerKeys(page) == 0..Len(page.layers)

\* The table of one page.  isAnnotated, pageTypeFormat and the names of the
\* content layers have no state behind them in the model and are left out.
PageTable(page) ==
    [pageWidth |-> page.width,
     pageHeight |-> page.height,
     pdfBackgroundPageNo |-> page.pdfPageNr + 1,
     layers |-> [k \in LayerKeys(page) |->
                   IF k = 0
                   THEN [isVisible |-> page.backgroundVisible,
                         name |-> page.backgroundName]
                   ELSE [isVisible |-> page.layers[k]]],
     currentLayer |-> page.currentLayer]

\* applib_getDocumentStructure
applib_getDocumentStructure ==
    {Done(1, << [pages |-> [p \in 1..Len(host.pages) |-> PageTable(host.pages[p])],
                 currentPage |-> host.currentPage + 1] >>,
          Entered)}

GetDocumentStructure ==
    Entry("getDocumentStructure", Nil, applib_getDocumentStructure)

----------------------------------------------------------------------------
(* Calls handed on to the controllers of the host *)

\* applib_refreshPage: page->firePageChanged() on the current page; without
\* a current page a warning is logged.  The call ends with return 0.
RefreshPage ==
    Entry("refreshPage", Nil,
          {Done(0, <<>>,
                IF hasPage
                THEN [Entered EXCEPT
                        !.fired = <<[event |-> "pageChanged", page |-> host.currentPage]>>]
                ELSE Entered)})

\* applib_layerAction: ActionType_fromString(luaL_checkstring(L, 1)) is
\* handed to LayerController::actionPerformed.  "ACTION_DELETE_LAYER"
\* deletes the current layer with its elements, and the layer below becomes
\* the selected one; the background is no layer that can be deleted.  The
\* other actions of LayerActions leave the layers as they are.
LayerAction(action) ==
    /\ alive
    /\ call.result # "running"
    /\ LET page == getCurrentPage
           deletes == /\ action = "ACTION_DELETE_LAYER"
                      /\ hasPage
                      /\ page.currentLayer > 0
           below == [page EXCEPT
                       !.layers = [k \in 1..(Len(page.layers) - 1) |->
                                     IF k < page.currentLayer
                                     THEN page.layers[k] ELSE page.layers[k + 1]],
                       !.currentLayer = page.currentLayer - 1]
       IN  /\ layer' = IF deletes THEN <<>> ELSE layer
           /\ host' = IF deletes THEN WithCurrentPage(Entered, below) ELSE Entered
           /\ call' = Returned("layerAction", [action |-> action],
                               Done(1, <<>>, Entered))
    /\ UNCHANGED <<alive, hasPage, toolHandler, selection>>

\* applib_uiAction: without an action field the call ends in the error
\* "Missing action!"; else ActionType_fromString(actionStr) is handed to
\* Control::actionPerformed.  The tool actions select the tool,
\* "ACTION_UNDO" takes back the last stroke drawn by hand (addStrokeHelper
\* registers no undo action, so the strokes of the script are not taken
\* back), "ACTION_DELETE" deletes the selection.
UiAction(arg) ==
    /\ alive
    /\ call.result # "running"
    /\ host' = Entered
    /\ IF IsNil(arg.action)
       THEN /\ call' = Returned("uiAction", arg, Fail("Missing action!", Entered))
            /\ UNCHANGED <<layer, toolHandler, selection>>
       ELSE LET action == Val(arg.action)
            IN  /\ toolHandler' =
                     [toolHandler EXCEPT !.toolType =
                        CASE action = "ACTION_TOOL_PEN" -> TOOL_PEN
                          [] action = "ACTION_TOOL_ERASER" -> TOOL_ERASER
                          [] action = "ACTION_TOOL_HIGHLIGHTER" -> TOOL_HIGHLIGHTER
                          [] OTHER -> @]
                /\ layer' = IF /\ action = "ACTION_UNDO"
                               /\ Len(layer) > 0
                               /\ layer[1] = ExistingStroke
                            THEN Tail(layer) ELSE layer
                /\ selection' = IF action = "ACTION_DELETE" THEN Nil ELSE selection
                /\ call' = Returned("uiAction", arg, Done(1, <<>>, Entered))
    /\ UNCHANGED <<alive, hasPage>>

\* The actions of the sidebar menu, the keys of actionMap.
SidebarActions == {"COPY", "DELETE", "MOVE_UP", "MOVE_DOWN", "NEW_BEFORE", "NEW_AFTER"}

\* applib_sidebarAction: a name that is no key of actionMap ends in the
\* error "Unkonwn action: ..."; else SidebarToolbar::runAction copies,
\* deletes or moves the current page or adds a page before or after it.  A
\* document keeps its last page, and the pages stay within MaxPages.
SidebarAction(action) ==
    LET pages == host.pages
        n == Len(pages)
        c == host.currentPage
        Insert(i, page) == SubSeq(pages, 1, i) \o <<page>> \o SubSeq(pages, i + 1, n)
        Swap(i, j) == [pages EXCEPT ![i] = pages[j], ![j] = pages[i]]
        after ==
            CASE action = "COPY" ->
                   [Entered EXCEPT !.pages = Insert(c + 1, pages[c + 1]),
                                   !.currentPage = c + 1]
              [] action = "DELETE" /\ n > 1 ->
                   [Entered EXCEPT !.pages = SubSeq(pages, 1, c) \o SubSeq(pages, c + 2, n),
                                   !.currentPage = IF c > n - 2 THEN n - 2 ELSE c]
              [] action = "MOVE_UP" /\ c > 0 ->
                   [Entered EXCEPT !.pages = Swap(c, c + 1), !.currentPage = c - 1]
              [] action = "MOVE_DOWN" /\ c < n - 1 ->
                   [Entered EXCEPT !.pages = Swap(c + 1, c + 2), !.currentPage = c + 1]
              [] action = "NEW_BEFORE" ->
                   [Entered EXCEPT !.pages = Insert(c, PlainPage(1))]
              [] action = "NEW_AFTER" ->
                   [Entered EXCEPT !.pages = Insert(c + 1, PlainPage(1)),
                                   !.currentPage = c + 1]
              [] OTHER -> Entered
    IN  IF action \notin SidebarActions
        THEN Entry("sidebarAction", [action |-> action],
                   {Fail("Unkonwn action: " \o action, Entered)})
        ELSE /\ action \in {"COPY", "NEW_BEFORE", "NEW_AFTER"} => n < MaxPages
             /\ Entry("sidebarAction", [action |-> action],
                      {Done(1, <<>>, IF hasPage THEN after ELSE Entered)})

\* applib_changeCurrentPageBackground: the page type named by the first
\* argument becomes the background of the current page, which has no pdf
\* page behind it then.
ChangeCurrentPageBackground(type) ==
    Entry("changeCurrentPageBackground", [type |-> type],
          {Done(1, <<>>,
                IF hasPage
                THEN WithCurrentPage(Entered, [getCurrentPage EXCEPT
                                                 !.isPdf = FALSE, !.pdfPageNr = NPOS])
                ELSE Entered)})

----------------------------------------------------------------------------
(* Arguments of the calls *)

NoAttributes ==
    [tool |-> Nil, width |-> Nil, color |-> Nil, fill |-> Nil, lineStyle |-> Nil]

\* The optional fields tool, width, color, fill and lineStyle.  The colors
\* are 0xaabbcc, 0xff000000 (above the RGB range) and 2^32 + 0x10.
Attributes ==
    [tool : {Nil, Some("pen"), Some("highlighter"), Some("eraser")},
     width : {Nil, Some(140)},
     color : {Nil, Some(LuaInteger(0, 0, 11189196)), Some(LuaInteger(0, 255, 0)),
              Some(LuaInteger(1, 0, 16))},
     fill : {Nil, Some(200)},
     lineStyle : {Nil, Some("dot"), Some("solid")}]

\* Coordinate tables of every length up to MaxPoints; x, y and pressure tables
\* hold different numbers, the pressures (in hundredths) falling.
XTable(n) == LuaTable([i \in 1..n |-> 10 * i + 1])
YTable(n) == LuaTable([i \in 1..n |-> 10 * i + 2])
PressureTable(n) == LuaTable([i \in 1..n |-> 60 - 10 * i])

StrokeArg(x, y, pressure, at) ==
    [x |-> x, y |-> y, pressure |-> pressure, tool |-> at.tool, width |-> at.width,
     color |-> at.color, fill |-> at.fill, lineStyle |-> at.lineStyle]

\* addStroke calls that vary the coordinate tables.
StrokeGeometryArgs ==
    { StrokeArg(x, y, p, NoAttributes) :
        x \in {XTable(n) : n \in 0..MaxPoints} \cup {LuaNil},
        y \in {YTable(n) : n \in 0..MaxPoints} \cup {LuaNil},
        p \in {PressureTable(n) : n \in 0..MaxPoints} \cup {LuaNil} }

\* addStroke calls that vary the attributes of a two-point stroke.
StrokeAttributeArgs ==
    { StrokeArg(XTable(2), YTable(2), LuaNil, at) : at \in Attributes }

\* Spline segments: a curved one, a straight line and a second curved one.
Segments ==
    { <<0, 0, 0, 16, 16, 16, 16, 0>>,
      <<16, 0, 20, 0, 28, 0, 32, 0>>,
      <<32, 0, 32, 8, 40, 8, 48, 0>> }

RECURSIVE SegmentStreams(_)
SegmentStreams(n) ==
    IF n = 0 THEN {<<>>}
    ELSE LET shorter == SegmentStreams(n - 1)
         IN  shorter \cup {s \o seg : s \in {t \in shorter : Len(t) = 8 * (n - 1)},
                                      seg \in Segments}

\* The stream with its last k numbers missing.
Truncated(stream, k) == SubSeq(stream, 1, Len(stream) - k)

SplineArg(splines, at) ==
    [splines |-> splines, tool |-> at.tool, width |-> at.width,
     color |-> at.color, fill |-> at.fill, lineStyle |-> at.lineStyle]

\* addSpline calls that vary the coordinate list: whole segments, lists cut
\* short, no list, and a number in place of the list.
SplineGeometryArgs ==
    { SplineArg(LuaTable(s), NoAttributes) : s \in SegmentStreams(MaxSegments) }
    \cup { SplineArg(LuaTable(Truncated(s, k)), NoAttributes) :
             s \in {t \in SegmentStreams(MaxSegments) : Len(t) = 8 * MaxSegments},
             k \in {1, 4, 7} }
    \cup { SplineArg(LuaNil, NoAttributes), SplineArg(LuaNumber(8), NoAttributes) }

\* addSpline calls that vary the attributes of a one-segment spline.
SplineAttributeArgs ==
    { SplineArg(LuaTable(<<0, 0, 0, 16, 16, 16, 16, 0>>), at) : at \in Attributes }

\* changeToolColor calls.  The colors are 0xaabbcc, 0xffffff, 0x1000000, -1,
\* 2^32 + 0xaabbcc and -2^32 + 0x10.
ColorArgs ==
    [selection : {Nil, Some(TRUE)},
     tool : {Nil, Some("pen"), Some("PEN"), Some("Highlighter"), Some("eraser"),
             Some("bogus")},
     color : {Nil, Some(LuaInteger(0, 0, 11189196)), Some(LuaInteger(0, 0, 16777215)),
              Some(LuaInteger(0, 1, 0)), Some(LuaInteger(-1, 255, 16777215)),
              Some(LuaInteger(1, 0, 11189196)), Some(LuaInteger(-1, 0, 16))}]

\* changeToolColor of the text tool, named in capitals, to 0xaabbcc.
TextColorArgs ==
    [selection : {Nil}, tool : {Some("TEXT")},
     color : {Some(LuaInteger(0, 0, 11189196))}]

----------------------------------------------------------------------------------------------------------------------------------------------------
(* Specifications *)

\* A script session: the three entry points, called in any order with a few
\* arguments each (strokes without attributes, with a color, as highlighter;
\* one curved segment; the pen, the highlighter or the active tool recolored).
SessionStrokeArgs ==
    { StrokeArg(XTable(2), YTable(2), LuaNil, at) :
        at \in { NoAttributes,
                 [NoAttributes EXCEPT !.color = Some(LuaInteger(0, 0, 255))],
                 [NoAttributes EXCEPT !.tool = Some("highlighter")] } }

SessionSplineArgs ==
    { SplineArg(LuaTable(<<0, 0, 0, 16, 16, 16, 16, 0>>), NoAttributes) }

SessionColorArgs ==
    [selection : {Nil}, tool : {Nil, Some("pen"), Some("highlighter")},
     color : {Some(LuaInteger(0, 0, 11189196)), Some(LuaInteger(0, 0, 16777215))}]

DoAddStroke == \E arg \in SessionStrokeArgs : AddStroke(arg)
DoAddSpline == \E arg \in SessionSplineArgs : AddSpline(arg)
DoChangeToolColor == \E arg \in SessionColorArgs : ChangeToolColor(arg)

\* The actions a script passes to layerAction and uiAction.
LayerActions == {"ACTION_DELETE_LAYER", "ACTION_GOTO_TOP_LAYER"}

UiActionArgs ==
    [action : {Nil, Some("ACTION_TOOL_PEN"), Some("ACTION_TOOL_ERASER"),
               Some("ACTION_TOOL_HIGHLIGHTER"), Some("ACTION_UNDO"),
               Some("ACTION_DELETE")}]

Next ==
    \/ DoAddStroke
    \/ DoAddSpline
    \/ DoChangeToolColor
    \/ \E action \in LayerActions : LayerAction(action)
    \/ \E arg \in UiActionArgs : UiAction(arg)
    \/ RefreshPage

Spec == Init /\ [][Next]_vars

\* One call left on the layer: the layer holds MaxElements - 1 elements.
InitOneLeft == Init /\ Len(layer) = MaxElements - 1 /\ selection = Nil

\* addStroke with every combination of coordinate tables.
NextStroke == \E arg \in StrokeGeometryArgs : AddStroke(arg)
SpecStroke == InitOneLeft /\ [][NextStroke]_vars

\* addSpline with every coordinate list.
NextSpline == \E arg \in SplineGeometryArgs : AddSpline(arg)
SpecSpline == InitOneLeft /\ [][NextSpline]_vars

\* addStroke and addSpline with every combination of attributes.
AttrStroke == \E arg \in StrokeAttributeArgs : AddStroke(arg)
AttrSpline == \E arg \in SplineAttributeArgs : AddSpline(arg)
NextAttr == AttrStroke \/ AttrSpline
SpecAttr == InitOneLeft /\ [][NextAttr]_vars

\* The modes a script asks getToolInfo for: the five of the interface, a
\* mode in capitals and two strings that name no mode.
Modes == {"active", "pen", "highlighter", "eraser", "text", "PEN", "bogus", ""}

\* changeToolColor with every argument.
InitTool == Init /\ hasPage /\ layer = <<>>
NextTool ==
    \/ \E arg \in ColorArgs : ChangeToolColor(arg)
    \/ \E arg \in TextColorArgs : ChangeToolColor(arg)

\* getToolInfo with every mode, between changes of the tool colors.
NextInfo ==
    \/ \E mode \in Modes : GetToolInfo(mode)
    \/ \E arg \in SessionColorArgs : ChangeToolColor(arg)
SpecInfo == InitTool /\ [][NextInfo]_vars
SpecTool == InitTool /\ [][NextTool]_vars

----------------------------------------------------------------------------
(* Specifications of the calls on the document *)

\* Page, layer and pdf page numbers a script passes: small ones around the
\* valid range, MaxPages + 5, 2^32 + 1, 2^32 + 2, -2^32 + 2 and -2^32.
Numbers ==
    {Integer64(0, n) : n \in -2..3} \cup
    {Integer64(0, MaxPages + 5), Integer64(1, 1), Integer64(1, 2),
     Integer64(-1, 2), Integer64(-1, 0)}

\* An optional boolean argument.
Flags == {Nil, Some(TRUE), Some(FALSE)}

PageArgs == [page : Numbers, relative : Flags]

\* Documents of up to MaxPages plain pages, any of them the current one.
InitPages ==
    /\ alive = TRUE
    /\ layer = <<>>
    /\ toolHandler \in InitialToolHandlers
    /\ selection = Nil
    /\ \E n \in 0..MaxPages : \E current \in 0..MaxPages :
         /\ (current < n \/ current = 0)
         /\ host = Host([k \in 1..n |-> PlainPage(1)], current, 0, FALSE)
         /\ hasPage = (n > 0)
    /\ call = NoCall

NextPages ==
    \/ \E arg \in PageArgs : ScrollToPage(arg)
    \/ \E arg \in [page : Numbers] : SetCurrentPage(arg)
    \/ \E action \in SidebarActions \cup {"bogus"} : SidebarAction(action)
SpecPages == InitPages /\ [][NextPages]_vars

\* The smaller of two numbers.
Min(a, b) == IF a < b THEN a ELSE b

\* Documents of 0 to MaxPages pages: plain pages with 0, 1, .. content
\* layers, or, for a document on a pdf file of MaxPdfPages pages, pdf pages
\* followed by plain pages.
Documents ==
    { [k \in 1..n |->
         IF pdf /\ k <= MaxPdfPages THEN PdfPage(k - 1)
         ELSE PlainPage(Min(k - 1, MaxLayers))] :
      n \in 0..MaxPages, pdf \in BOOLEAN }

\* Every document with any of its pages the current one; the document
\* without pages has no current page.
InitDocument ==
    /\ alive = TRUE
    /\ layer = <<>>
    /\ toolHandler \in InitialToolHandlers
    /\ selection = Nil
    /\ \E pages \in Documents : \E current \in 0..MaxPages :
         /\ (current < Len(pages) \/ current = 0)
         /\ hasPage = (Len(pages) > 0)
         /\ host = Host(pages, current,
                        IF Len(pages) > 0 /\ pages[1].isPdf THEN MaxPdfPages ELSE 0,
                        FALSE)
    /\ call = NoCall

\* Widths and heights: none, too small by more than a page, and half of
\* MaxExtent.
SizeArgs ==
    [width : {-700, 0, 500}, height : {0, 400}, relative : Flags]

PdfArgs == [nr : Numbers, relative : Flags]

LayerArgs == [layerId : Numbers, update : Flags]

\* setPageSize and changeBackgroundPdfPageNr in any order.
NextSize ==
    \/ \E arg \in SizeArgs : SetPageSize(arg)
    \/ SetPageSizeNotify
    \/ \E type \in {"graph", "plain"} : ChangeCurrentPageBackground(type)
    \/ \E arg \in PdfArgs : ChangeBackgroundPdfPageNr(arg)
SpecSize == InitDocument /\ [][NextSize]_vars

\* setCurrentLayer, setLayerVisibility and getDocumentStructure in any order.
NextLayers ==
    \/ \E arg \in LayerArgs : SetCurrentLayer(arg)
    \/ \E arg \in [enabled : Flags] : SetLayerVisibility(arg)
    \/ GetDocumentStructure
SpecLayers == InitDocument /\ [][NextLayers]_vars

\* The entry points that work on the current page, called when there is
\* none.
InitNoPage ==
    /\ alive = TRUE
    /\ hasPage = FALSE
    /\ layer = <<>>
    /\ toolHandler \in InitialToolHandlers
    /\ selection = Nil
    /\ host = Host(<<>>, 0, 0, FALSE)
    /\ call = NoCall

NextNoPage ==
    \/ \E arg \in StrokeGeometryArgs : AddStroke(arg)
    \/ \E arg \in SplineGeometryArgs : AddSpline(arg)
    \/ \E arg \in [enabled : Flags] : SetLayerVisibility(arg)
    \/ \E arg \in [factor : {50, 230}] : ScaleTextElements(arg)
    \/ \E arg \in SizeArgs : SetPageSize(arg)
    \/ \E arg \in LayerArgs : SetCurrentLayer(arg)
    \/ \E arg \in [name : {Nil, Some("Custom name 1")}] : SetBackgroundName(arg)
    \/ \E arg \in PdfArgs : ChangeBackgroundPdfPageNr(arg)
SpecNoPage == InitNoPage /\ [][NextNoPage]_vars

\* The tables a plugin passes to registerUi.
UiArgs ==
    [callback : {Nil, Some("drawStroke")},
     menu : {Nil, Some("Transcribe Image")},
     accelerator : {Nil, Some("<Control><Shift>t")}]

SaveArgs == [suggestion : {Nil, Some("foo")}]

FilterArgs == [filters : {Nil, Some(<<>>), Some(<<"*.bmp", "*.png">>)}]

\* The plugin is loaded, inside or after its initUi().
InitUi ==
    /\ alive = TRUE
    /\ hasPage = TRUE
    /\ layer = <<>>
    /\ toolHandler \in InitialToolHandlers
    /\ selection = Nil
    /\ \E phase \in BOOLEAN : host = Host(<<PlainPage(1)>>, 0, 0, phase)
    /\ call = NoCall

NextUi ==
    \/ \E arg \in UiArgs : RegisterUi(arg)
    \/ InitUiDone
    \/ \E arg \in SaveArgs : SaveAs(arg)
    \/ \E arg \in FilterArgs : GetFilePath(arg)
    \/ \E response \in Responses : DialogResponse(response)
SpecUi == InitUi /\ [][NextUi]_vars

----------------------------------------------------------------------------
(* Properties of addStroke *)

LastElement(elements) == elements[Len(elements)]

\* The call just made is an addStroke call on a document with a current page
\* whose x and y fields are tables.
StrokeCallWithTables(c) ==
    /\ c.op = "addStroke"
    /\ hasPage
    /\ lua_istable(c.arg.x)
    /\ lua_istable(c.arg.y)

\* C1: an addStroke call with x and y tables of one length n >= 2, and a
\* pressure table that is absent or of length n too, appends exactly one
\* stroke to the selected layer; the stroke has n points, and point i has the
\* pressure pressure[i] if a pressure table was given and NO_PRESSURE if not.
C1_OneStrokeWithPressure ==
    [][ ( /\ StrokeCallWithTables(call')
          /\ Len(call'.arg.x.items) = Len(call'.arg.y.items)
          /\ Len(call'.arg.x.items) >= 2
          /\ \/ call'.arg.pressure = LuaNil
             \/ /\ lua_istable(call'.arg.pressure)
                /\ Len(call'.arg.pressure.items) = Len(call'.arg.x.items) )
        => /\ Len(layer') = Len(layer) + 1
           /\ SubSeq(layer', 1, Len(layer)) = layer
           /\ Len(LastElement(layer').points) = Len(call'.arg.x.items)
           /\ \A i \in 1..Len(call'.arg.x.items) :
                LastElement(layer').points[i].z =
                    IF call'.arg.pressure = LuaNil THEN NO_PRESSURE
                    ELSE call'.arg.pressure.items[i] ]_vars

\* A stroke of three points was committed with the pressures 50, 40, 30 onto
\* a layer that held an element already.
C1_Witness ==
    /\ call.op = "addStroke"
    /\ call.result = "ok"
    /\ call.arg.pressure = PressureTable(3)
    /\ Len(layer) >= 2
    /\ LastElement(layer).points[2].z = 40
    /\ LastElement(layer).points[3].z = 30

\* C2: point i of a stroke committed by addStroke has the x-coordinate x[i]
\* and the y-coordinate y[i] of the call.
C2_CoordinatesNotExchanged ==
    (StrokeCallWithTables(call) /\ call.result = "ok")
    => \A i \in 1..Len(call.arg.x.items) :
         /\ LastElement(layer).points[i].x = call.arg.x.items[i]
         /\ LastElement(layer).points[i].y = call.arg.y.items[i]

\* C3: an addStroke call whose x and y tables differ in length ends in an
\* error and leaves the elements of the selected layer as they were.
C3_LengthMismatchRaises ==
    [][ ( /\ StrokeCallWithTables(call')
          /\ Len(call'.arg.x.items) # Len(call'.arg.y.items) )
        => /\ call'.result = "error"
           /\ layer' = layer
           /\ Len(layer') = Len(layer) ]_vars

\* A call with two x and three y values has been refused.
C3_Witness ==
    /\ call.op = "addStroke"
    /\ call.result = "error"
    /\ call.msg = "X and Y vectors are not equal length!"
    /\ call.arg.x = XTable(2)
    /\ call.arg.y = YTable(3)
    /\ Len(layer) = MaxElements - 1

----------------------------------------------------------------------------
(* Properties of addSpline *)

\* The call just made is an addSpline call on a document with a current page.
SplineCall(c) == c.op = "addSpline" /\ hasPage

\* The number of points segments first .. last - 1 of the list rasterize to
\* (segments count from 0).
RECURSIVE RasterLength(_, _, _)
RasterLength(stream, first, last) ==
    IF first >= last THEN 0
    ELSE Len(toPointSequence(SegmentAt(stream, 8 * first)))
         + RasterLength(stream, first + 1, last)

SegmentCount(stream) == Len(stream) \div 8

\* The points are the rasterizations of the segments, in segment order.
InSegmentOrder(points, stream) ==
    /\ Len(points) = RasterLength(stream, 0, SegmentCount(stream))
    /\ \A k \in 0..(SegmentCount(stream) - 1) :
         SubSeq(points, RasterLength(stream, 0, k) + 1, RasterLength(stream, 0, k + 1))
            = toPointSequence(SegmentAt(stream, 8 * k))

\* C4 as claimed: addSpline raises an error exactly when the length of the
\* list is no multiple of 8, and in every other case, the empty list and the
\* lists of fewer than two points included, appends exactly one stroke whose
\* points are the rasterizations of the segments in order.
C4_AlwaysCommits ==
    [][ (SplineCall(call') /\ lua_istable(call'.arg.splines))
        => /\ (call'.result = "error") <=> (Len(call'.arg.splines.items) % 8 # 0)
           /\ (Len(call'.arg.splines.items) % 8 = 0)
              => /\ Len(layer') = Len(layer) + 1
                 /\ SubSeq(layer', 1, Len(layer)) = layer
                 /\ InSegmentOrder(LastElement(layer').points, call'.arg.splines.items)
      ]_vars

\* C4, amended: addSpline raises an error exactly when the length of the list
\* is no multiple of 8 and then leaves the layer alone; a list of whole
\* segments that rasterizes to two points or more appends exactly one stroke
\* whose points are the rasterizations of the segments in order; a list of
\* whole segments that rasterizes to fewer than two points (the empty list, a
\* single straight segment) is discarded and the layer is left alone.
C4_CommitsTwoPointsOrMore ==
    [][ (SplineCall(call') /\ lua_istable(call'.arg.splines))
        => LET stream == call'.arg.splines.items
               total == RasterLength(stream, 0, SegmentCount(stream))
           IN  /\ (call'.result = "error") <=> (Len(stream) % 8 # 0)
               /\ (Len(stream) % 8 # 0) => layer' = layer
               /\ (Len(stream) % 8 = 0 /\ total >= 2)
                  => /\ call'.result = "ok"
                     /\ Len(layer') = Len(layer) + 1
                     /\ SubSeq(layer', 1, Len(layer)) = layer
                     /\ InSegmentOrder(LastElement(layer').points, stream)
               /\ (Len(stream) % 8 = 0 /\ total < 2)
                  => /\ call'.result = "discard"
                     /\ layer' = layer
      ]_vars

\* Two segments, the second a straight line, were committed as one stroke of
\* three points.
C4_Witness ==
    /\ call.op = "addSpline"
    /\ call.result = "ok"
    /\ Len(call.arg.splines.items) = 16
    /\ Len(layer) >= 2
    /\ Len(LastElement(layer).points) = 3

\* C5: addSpline with no splines field, or with a splines field that is no
\* table, ends in the error "Missing Spline table!" and leaves the layer alone.
C5_MissingTableRaises ==
    (SplineCall(call) /\ ~lua_istable(call.arg.splines))
    => /\ call.result = "error"
       /\ call.msg = "Missing Spline table!"
       /\ Len(layer) = MaxElements - 1

----------------------------------------------------------------------------
(* Properties of changeToolColor *)

\* The tool a name addresses when upper and lower case are not told apart.
ToolNamed(name) ==
    CASE name \in {"pen", "PEN", "Pen"} -> TOOL_PEN
      [] name \in {"highlighter", "Highlighter"} -> TOOL_HIGHLIGHTER
      [] name \in {"eraser", "ERASER"} -> TOOL_ERASER
      [] name \in {"text", "TEXT"} -> TOOL_TEXT
      [] OTHER -> TOOL_NONE

\* No tool's color changes in the step.
ToolColorsUnchanged ==
    \A t \in ToolTypes : toolHandler'.tools[t].color = toolHandler.tools[t].color

\* C6: changeToolColor with a color c in [0, 0xFFFFFF] and the name of a
\* tool that takes a color sets the color of that tool to c and leaves the
\* color of every other tool as it was, whatever the case of the name.
C6_SetsNamedToolOnly ==
    [][ ( /\ call'.op = "changeToolColor"
          /\ ~IsNil(call'.arg.color)
          /\ InRgbRange(Val(call'.arg.color))
          /\ ~IsNil(call'.arg.tool)
          /\ HasColorCapability(ToolNamed(Val(call'.arg.tool))) )
        => LET named == ToolNamed(Val(call'.arg.tool))
           IN  /\ toolHandler'.tools[named].color
                    = [a |-> 0, rgb |-> Val(call'.arg.color).rgb]
               /\ \A t \in ToolTypes \ {named} :
                    toolHandler'.tools[t].color = toolHandler.tools[t].color
      ]_vars

\* changeToolColor({color = 0xaabbcc, tool = "PEN"}) has made the pen
\* 0xaabbcc and left the highlighter 0xffff00.
C6_Witness ==
    /\ call.op = "changeToolColor"
    /\ call.arg.tool = Some("PEN")
    /\ call.arg.color = Some(LuaInteger(0, 0, 11189196))
    /\ toolHandler.tools[TOOL_PEN].color = Rgb(11189196)
    /\ toolHandler.tools[TOOL_HIGHLIGHTER].color = Rgb(16776960)

\* C7: changeToolColor with an integer color outside [0, 0xFFFFFF], negative
\* or 2^32 and more included, leaves the color of every tool as it was.
C7_OutOfRangeColorIgnored ==
    [][ ( /\ call'.op = "changeToolColor"
          /\ ~IsNil(call'.arg.color)
          /\ ~InRgbRange(Val(call'.arg.color)) )
        => ToolColorsUnchanged ]_vars

\* C8: changeToolColor without a color field uses the current color of the
\* tool, so that no tool has another color after the call than before it.
C8_AbsentColorKeepsColor ==
    [][ (call'.op = "changeToolColor" /\ IsNil(call'.arg.color))
        => ToolColorsUnchanged ]_vars

----------------------------------------------------------------------------
(* Properties of the stroke attributes *)

\* The call just made committed a stroke, the last element of the layer.
StrokeCommitted(c) == c.op \in {"addStroke", "addSpline"} /\ c.result = "ok"

\* C9: an addStroke call without a color field and without the tool tag
\* "highlighter" commits a stroke with the color the pen has at the moment of
\* the call, and leaves the strokes committed before as they are: after a
\* changeToolColor of the pen, the earlier stroke has the old color and the
\* new stroke the new one.
C9_PenColorAtCallTime ==
    [][ ( /\ call'.op = "addStroke"
          /\ call'.result = "ok"
          /\ IsNil(call'.arg.color)
          /\ call'.arg.tool # Some("highlighter") )
        => /\ LastElement(layer').color = toolHandler.tools[TOOL_PEN].color
           /\ SubSeq(layer', 1, Len(layer)) = layer ]_vars

\* Two strokes without a color field: the first drawn when the pen was
\* 0x3333cc, the second after changeToolColor made it 0xaabbcc.
C9_Witness ==
    /\ call.op = "addStroke"
    /\ call.result = "ok"
    /\ call.arg.color = Nil
    /\ call.arg.tool = Nil
    /\ Len(layer) >= 2
    /\ layer[Len(layer) - 1].color = Rgb(3355596)
    /\ layer[Len(layer) - 1].toolType = STROKE_TOOL_PEN
    /\ LastElement(layer).color = Rgb(11189196)
    /\ toolHandler.tools[TOOL_PEN].color = Rgb(11189196)

\* The color is the integer, as a number.
ColorIs(color, i) == i.hi = 0 /\ color.a = i.a /\ color.rgb = i.rgb

\* C10: a stroke committed by addStroke or addSpline has, for each of width,
\* color, fill and line style on its own, the field of the argument when the
\* argument has it and else the value of the selected tool as getToolInfo
\* reports it at the call, the highlighter for tool = "highlighter" and the
\* pen otherwise; the fill of the tool is its fill opacity when its fill is
\* enabled and -1 when it is not, and a tool without a line style gives the
\* plain line.
C10_ExplicitFieldOverTool ==
    StrokeCommitted(call) =>
        LET s == LastElement(layer)
            arg == call.arg
            snap == IF arg.tool = Some("highlighter")
                    THEN applib_getToolInfo("highlighter")
                    ELSE applib_getToolInfo("pen")
        IN  /\ s.width = IF ~IsNil(arg.width) THEN Val(arg.width)
                         ELSE snap.size.value
            /\ ColorIs(s.color, IF ~IsNil(arg.color) THEN Val(arg.color)
                                ELSE snap.color)
            /\ s.fill = IF ~IsNil(arg.fill) THEN Val(arg.fill)
                        ELSE IF snap.filled THEN snap.fillOpacity ELSE NO_FILL
            /\ s.lineStyle = IF ~IsNil(arg.lineStyle) THEN parseStyle(Val(arg.lineStyle))
                             ELSE IF "lineStyle" \in DOMAIN snap
                                  THEN parseStyle(snap.lineStyle)
                                  ELSE PlainLine

----------------------------------------------------------------------------
(* Properties of the page calls *)

\* min(max(r, 0), count - 1) for r = i + base, i a 64-bit integer and base
\* -1 or a page index.
ClampedIndex(i, base, count) ==
    IF i.hi > 0 THEN count - 1
    ELSE IF i.hi < 0 THEN 0
    ELSE IF i.lo + base < 0 THEN 0
    ELSE IF i.lo + base > count - 1 THEN count - 1
    ELSE i.lo + base

\* C11: on a document with at least one page, scrollToPage with any integer
\* and either flag raises no error and scrolls to min(max(r, 0), pageCount - 1),
\* r being the argument less one, or in relative mode the current page index
\* plus the argument.
C11_ScrollClamped ==
    [][ (call'.op = "scrollToPage" /\ Len(host.pages) >= 1)
        => /\ call'.result = "ok"
           /\ host'.scrolledTo =
                ClampedIndex(call'.arg.page,
                             IF call'.arg.relative = Some(TRUE)
                             THEN host.currentPage ELSE -1,
                             Len(host.pages)) ]_vars

\* C12: on a document with at least one page, setCurrentPage with any integer
\* pageId selects page index min(max(pageId, 1), pageCount) - 1: the first
\* page for a pageId below 1, the last for one above pageCount.
C12_CurrentPageClamped ==
    [][ (call'.op = "setCurrentPage" /\ Len(host.pages) >= 1)
        => /\ call'.result = "ok"
           /\ host'.currentPage =
                ClampedIndex(call'.arg.page, -1, Len(host.pages)) ]_vars

----------------------------------------------------------------------------
(* Properties of the layer calls *)

\* The current page before and after the step.
PageBefore == host.pages[host.currentPage + 1]
PageAfter == host'.pages[host.currentPage + 1]

\* C13: setCurrentLayer with a layerId outside [0, layerCount] of the current
\* page, negative ones included, raises an error and leaves the page as it
\* is; with a layerId inside the range it makes that layer the selected one
\* and, only when the update flag is true, shows the layers up to it and
\* hides the others.
C13_LayerIdValidated ==
    [][ (call'.op = "setCurrentLayer" /\ hasPage)
        => LET id == call'.arg.layerId
               inside == id.hi = 0 /\ id.lo >= 0 /\ id.lo <= Len(PageBefore.layers)
           IN  IF ~inside
               THEN call'.result = "error" /\ host'.pages = host.pages
               ELSE /\ call'.result = "ok"
                    /\ PageAfter.currentLayer = id.lo
                    /\ IF call'.arg.update = Some(TRUE)
                       THEN \A k \in 1..Len(PageBefore.layers) :
                              PageAfter.layers[k] = (k <= id.lo)
                       ELSE /\ PageAfter.layers = PageBefore.layers
                            /\ PageAfter.backgroundVisible = PageBefore.backgroundVisible
      ]_vars

\* setCurrentLayer(1, true) on a page of two layers: layer 1 is selected,
\* layer 2 hidden.
C13_Witness ==
    /\ call.op = "setCurrentLayer"
    /\ call.result = "ok"
    /\ call.arg = [layerId |-> Integer64(0, 1), update |-> Some(TRUE)]
    /\ hasPage
    /\ getCurrentPage.currentLayer = 1
    /\ getCurrentPage.layers = <<TRUE, FALSE>>

\* C16: getDocumentStructure returns a pages table with the keys 1..P, the
\* layers table of page i having the keys 0..L_i; the values are those of
\* the document at the call (nothing is cached), and the call leaves the
\* document as it is.
C16_StructureOfDocument ==
    [][ (call'.op = "getDocumentStructure")
        => LET t == call'.values[1]
           IN  /\ call'.result = "ok"
               /\ DOMAIN t.pages = 1..Len(host.pages)
               /\ \A p \in 1..Len(host.pages) :
                    /\ DOMAIN t.pages[p].layers = 0..Len(host.pages[p].layers)
                    /\ t.pages[p].currentLayer = host.pages[p].currentLayer
                    /\ t.pages[p].layers[0].isVisible = host.pages[p].backgroundVisible
                    /\ \A k \in 1..Len(host.pages[p].layers) :
                         t.pages[p].layers[k].isVisible = host.pages[p].layers[k]
               /\ t.currentPage = host.currentPage + 1
               /\ host'.pages = host.pages
               /\ host'.currentPage = host.currentPage
      ]_vars

\* A page of two layers had its selected layer and its visibility changed,
\* and the structure read afterwards shows the change.
C16_Witness ==
    /\ call.op = "getDocumentStructure"
    /\ Len(host.pages) = 3
    /\ DOMAIN call.values[1].pages[3].layers = 0..2
    /\ call.values[1].pages[3].currentLayer = 1
    /\ call.values[1].pages[3].layers[2].isVisible = FALSE
    /\ DOMAIN call.values[1].pages[1].layers = 0..0

----------------------------------------------------------------------------
(* Properties of the page size and background calls *)

\* The notification was fired in the call.
Fired(h, event) == \E i \in 1..Len(h.fired) : h.fired[i] = event

\* Some notification about the page was fired in the call.
FiredFor(h, pageNo) == \E i \in 1..Len(h.fired) : h.fired[i].page = pageNo

\* C14: whenever setPageSize or changeBackgroundPdfPageNr has changed the
\* size or the background of a page, the call has fired the notification of
\* that change before it returns.
C14_ChangeNotified ==
    [][ /\ (call.op = "setPageSize" /\ call.result = "running")
           \* the setPageSize call returns
           => ( ( PageBefore.width # call.before.width
                  \/ PageBefore.height # call.before.height )
                => Fired(host', PageSizeChanged(host.currentPage)) )
        /\ (call'.op = "changeBackgroundPdfPageNr")
           => \A p \in 1..Len(host.pages) :
                /\ ( host'.pages[p].width # host.pages[p].width
                     \/ host'.pages[p].height # host.pages[p].height )
                   => Fired(host', PageSizeChanged(p - 1))
                /\ ( host'.pages[p].isPdf # host.pages[p].isPdf
                     \/ host'.pages[p].pdfPageNr # host.pages[p].pdfPageNr )
                   => FiredFor(host', p - 1)
      ]_vars

\* C15: setPageSize with a resolved width or height that is not above zero
\* does nothing: the size of the page stays, the document lock is not taken
\* and no notification is fired.
C15_NotPositiveDoesNothing ==
    [][ (call.op = "setPageSize" /\ call.result = "running")
        \* the setPageSize call returns; call.before is the page at the call
        => LET relative == call.arg.relative = Some(TRUE)
               width == call.arg.width + (IF relative THEN call.before.width ELSE 0)
               height == call.arg.height + (IF relative THEN call.before.height ELSE 0)
           IN  (width <= 0 \/ height <= 0)
               => /\ PageAfter = call.before
                  /\ host'.locks = 0
                  /\ host'.fired = <<>>
      ]_vars

\* C18: changeBackgroundPdfPageNr raises an error and leaves the pages as
\* they are when there is no current page, when the mode is relative (the
\* default) and the page has no pdf background, or when the resolved number
\* (pageNr - 1, or the current pdf page + pageNr in relative mode) is outside
\* [0, pdfPageCount - 1]; otherwise the page gets the resolved pdf page as
\* background and that pdf page's size.
C18_PdfPageValidated ==
    [][ (call'.op = "changeBackgroundPdfPageNr")
        => LET nr == call'.arg.nr
               relative == call'.arg.relative # Some(FALSE)
               base == IF relative THEN PageBefore.pdfPageNr ELSE -1
               inside == /\ nr.hi = 0
                         /\ nr.lo + base >= 0
                         /\ nr.lo + base <= host.pdfPageCount - 1
           IN  IF ~hasPage \/ (relative /\ ~PageBefore.isPdf) \/ ~inside
               THEN call'.result = "error" /\ host'.pages = host.pages
               ELSE /\ call'.result = "ok"
                    /\ PageAfter.isPdf
                    /\ PageAfter.pdfPageNr = nr.lo + base
                    /\ PageAfter.width = PdfPageSize(nr.lo + base).width
                    /\ PageAfter.height = PdfPageSize(nr.lo + base).height
      ]_vars

\* changeBackgroundPdfPageNr(-1, true) on the page of the second pdf page:
\* the page now shows the first pdf page and has its size.
C18_Witness ==
    /\ call.op = "changeBackgroundPdfPageNr"
    /\ call.result = "ok"
    /\ call.arg = [nr |-> Integer64(0, -1), relative |-> Some(TRUE)]
    /\ host.currentPage = 1
    /\ getCurrentPage.pdfPageNr = 0
    /\ getCurrentPage.width = PdfPageSize(0).width

----------------------------------------------------------------------------
(* Properties of the calls without a current page *)

\* The entry points that read or change the current page.
PageEntryPoints ==
    {"addStroke", "addSpline", "setLayerVisibility", "scaleTextElements",
     "setPageSize", "setCurrentLayer", "setBackgroundName",
     "changeBackgroundPdfPageNr"}

\* C19: every entry point that reads or changes the current page, called
\* when there is no current page, ends in an error that names the missing
\* page and never uses the missing page.
C19_NoPageRaises ==
    (call.op \in PageEntryPoints /\ ~hasPage)
        => (alive /\ call.result = "error" /\ call.msg = "No page!")

----------------------------------------------------------------------------
(* Properties of registerUi and saveAs *)

\* C17: registerUi adds a menu entry exactly when the plugin is inside its
\* UI-init phase and the callback field is there; otherwise it raises an
\* error and adds nothing.  The entry has the empty string for an absent
\* menu or accelerator, and the result is a record with the keys menuId and
\* toolbarId.
C17_RegistersInInitUiOnly ==
    [][ (call'.op = "registerUi")
        => LET arg == call'.arg
           IN  IF host.inInitUi /\ ~IsNil(arg.callback)
               THEN /\ call'.result = "ok"
                    /\ host'.menus =
                         Append(host.menus,
                                [menu |-> IF IsNil(arg.menu) THEN "" ELSE Val(arg.menu),
                                 callback |-> Val(arg.callback),
                                 accelerator |-> IF IsNil(arg.accelerator) THEN ""
                                                 ELSE Val(arg.accelerator)])
                    /\ Len(call'.values) = 1
                    /\ DOMAIN call'.values[1] = {"menuId", "toolbarId"}
               ELSE /\ call'.result = "error"
                    /\ host'.menus = host.menus
      ]_vars

\* registerUi({callback = "drawStroke"}) inside initUi has added an entry
\* with the empty menu label and accelerator.
C17_Witness ==
    /\ call.op = "registerUi"
    /\ call.result = "ok"
    /\ call.arg.menu = Nil
    /\ call.arg.accelerator = Nil
    /\ host.inInitUi
    /\ Len(host.menus) >= 1
    /\ host.menus[Len(host.menus)] =
         [menu |-> "", callback |-> "drawStroke", accelerator |-> ""]

\* C20: saveAs without an argument raises no error, opens the dialog with
\* the name "Untitled" and returns the chosen path as one string, or no
\* value when the user cancels.
C20_SaveAsDefaultName ==
    [][ (call'.op = "saveAs" /\ IsNil(call'.arg.suggestion))
        => /\ call'.result = "ok"
           /\ host'.dialog = Some("Untitled")
           /\ \/ call'.nret = 0 /\ call'.values = <<>>
              \/ call'.nret = 1 /\ Len(call'.values) = 1
      ]_vars

\* C21: getFilePath without a filters argument raises no error, opens the
\* dialog without a file filter and returns the chosen path as one string,
\* or no value when the user cancels; the native dialog is released when
\* the call returns.
C21_FilePathWithoutFilters ==
    [][ (call'.op = "getFilePath" /\ IsNil(call'.arg.filters))
        => /\ call'.result = "ok"
           /\ host'.dialog = Some(<<>>)
           /\ host'.native = 0
           /\ \/ call'.nret = 0 /\ call'.values = <<>>
              \/ call'.nret = 1 /\ Len(call'.values) = 1
      ]_vars

\* The keys of the record the comment above applib_getToolInfo documents
\* for each mode (lines 865-917), and no key for any other string.
DocumentedKeys(mode) ==
    CASE mode = "active" -> {"type", "size", "color", "fillOpacity",
                             "drawingType", "lineStyle", "thickness"}
      [] mode = "pen" -> {"size", "color", "filled", "fillOpacity",
                          "drawingType", "lineStyle"}
      [] mode = "highlighter" -> {"size", "color", "filled", "fillOpacity",
                                  "drawingType"}
      [] mode = "eraser" -> {"type", "size"}
      [] mode = "text" -> {"font", "color"}
      [] OTHER -> {}

\* The tool a mode reads.
ModeTool(mode) ==
    CASE mode = "active" -> toolHandler.toolType
      [] mode = "pen" -> TOOL_PEN
      [] mode = "highlighter" -> TOOL_HIGHLIGHTER
      [] mode = "eraser" -> TOOL_ERASER
      [] OTHER -> TOOL_TEXT

\* The documented "size" of a tool, read as the table {name, value} naming
\* the size of the tool: the shape the comment gives for active and the
\* one its examples 5 and 6 read for eraser and highlighter (the shapes for
\* pen, eraser and highlighter write "size" = string).
SizeAsDocumented(size, tool) ==
    /\ DOMAIN size = {"name", "value"}
    /\ size.name = toolSizeToString(tool.size)

\* C22: for every mode string getToolInfo raises no error and returns
\* exactly one record: for active, pen, highlighter, eraser and text the
\* record documented for that mode, with the color and the size of the
\* tool the mode names, and an empty record for every other string; no
\* attribute of any tool changes.
C22_ReturnsDocumentedRecord ==
    [][ call'.op = "getToolInfo"
        => LET mode == call'.arg.mode
               tool == toolHandler.tools[ModeTool(mode)]
           IN  /\ call'.result = "ok"
               /\ call'.nret = 1
               /\ Len(call'.values) = 1
               /\ DOMAIN call'.values[1] = DocumentedKeys(mode)
               /\ "color" \in DocumentedKeys(mode)
                    => ColorIs(tool.color, call'.values[1].color)
               /\ "size" \in DocumentedKeys(mode)
                    => SizeAsDocumented(call'.values[1].size, tool)
               /\ toolHandler' = toolHandler
      ]_vars

\* C23: after any addStroke or addSpline call, whatever its outcome, the
\* draft stroke is owned by the layer or has been released; no call leaves a
\* draft allocated and unowned.
C23_DraftOwnedOrReleased ==
    (call.op \in {"addStroke", "addSpline"} /\ hasPage)
        => call.draft \in {"owned", "released"}

\* C24: in every setPageSize call that changes the page size the document
\* is locked, the size changed, the document unlocked and the notification
\* fired, in exactly this order: the notification is fired after the change
\* and with the lock released, and the lock is not held when the call
\* returns.
C24_LockMutateUnlockNotify ==
    [][ /\ (call'.op = "setPageSize" /\ call'.result = "running")
           \* the call has released the lock and waits to notify
           => /\ host'.fired = <<>>
              /\ host'.trace \in {<<>>, <<"lock", "mutate", "unlock">>}
              /\ (PageAfter # PageBefore)
                   => host'.trace = <<"lock", "mutate", "unlock">>
        /\ (call.op = "setPageSize" /\ call.result = "running"
            /\ PageBefore # call.before)
           \* the call that has changed the size returns
           => /\ host.trace = <<"lock", "mutate", "unlock">>
              /\ host'.trace = <<"lock", "mutate", "unlock", "notify">>
              /\ host'.fired = <<PageSizeChanged(host.currentPage)>>
              /\ host'.pages = host.pages
              /\ call'.op = "setPageSize"
              /\ call'.result = "ok"
      ]_vars

\* A setPageSize(500, 400) call has changed the size of the current page and
\* notified the listeners last.
C24_Witness ==
    /\ call.op = "setPageSize"
    /\ call.result = "ok"
    /\ call.arg.width = 500
    /\ call.arg.relative = Nil
    /\ host.pages[host.currentPage + 1].width = 500
    /\ host.pages[host.currentPage + 1].height = 400
    /\ host.locks = 1
    /\ host.trace = <<"lock", "mutate", "unlock", "notify">>

\* C25: an addStroke call with a pressure table, the empty table included,
\* whose length differs from that of x ends in an error and leaves the layer
\* alone.
C25_PressureLengthChecked ==
    [][ ( /\ StrokeCallWithTables(call')
          /\ lua_istable(call'.arg.pressure)
          /\ Len(call'.arg.pressure.items) # Len(call'.arg.x.items) )
        => (call'.result = "error" /\ layer' = layer) ]_vars

\* C26: a stroke committed by addStroke or addSpline with a color field
\* outside [0, 0xFFFFFF] carries the color of the selected tool, the
\* highlighter for tool = "highlighter" and the pen otherwise.
C26_ColorOutOfRangeSkipped ==
    [][ ( /\ StrokeCommitted(call')
          /\ ~IsNil(call'.arg.color)
          /\ ~InRgbRange(Val(call'.arg.color)) )
        => LastElement(layer').color =
             IF call'.arg.tool = Some("highlighter")
             THEN toolHandler.tools[TOOL_HIGHLIGHTER].color
             ELSE toolHandler.tools[TOOL_PEN].color ]_vars

\* C27: scrollToPage and setCurrentPage, whose return is 'none', hand no
\* value back to the script when they end without an error.
C27_NoneReturnsNothing ==
    (call.op \in {"scrollToPage", "setCurrentPage"} /\ call.result = "ok")
        => call.nret = 0

====
